---- MODULE Spec2Model ----
(***************************************************************************)
(* The download-code-keyed file lifecycle of the file share platform:      *)
(* upload (Store), download (Fetch), preview (Inspect) and the cleanup of   *)
(* expired files (ExpireSweep), over a blob store and a metadata store.     *)
(*                                                                         *)
(* Two deployments are modelled.  backend = "mongo" is main.py over         *)
(* database/mongodb_client.py (GridFS + the files collection).  backend =   *)
(* "supabase" is routes/file_routes.py and the helpers of                   *)
(* database/supabase_client.py (Supabase storage + the files table).  The   *)
(* dashboard, streamlit.py over database/mongodb_client_sync.py, works on   *)
(* the stores of the mongo deployment.                                      *)
(*                                                                         *)
(* Every call into a store can fail; the handlers' try/except blocks decide *)
(* what a failure does.  A handler is one action; its store outcomes are    *)
(* inputs drawn with \E.  A handler is also an operator from the stores and *)
(* its inputs to the stores after it and its response; the variable last    *)
(* keeps the kind and the status of the most recent call's response.        *)
(*                                                                         *)
(* Spec takes each handler as one step.  SpecRace takes downloads and       *)
(* cleanups store call by store call, for two callers at once.              *)
(***************************************************************************)
EXTENDS Integers, Sequences, FiniteSets, TLC

\* ------------------------------------------------------------------ bounds
\* Calls that leave a trace in one behaviour: uploads that wrote a blob,
\* downloads that were served, and advances of the clock.
MaxCalls == 3

\* ------------------------------------------------------ program constants
MAX_FILE_SIZE == 100 * 1024 * 1024
ExpiryDays == 7
CodeLength == 8

\* Python's None, for a missing content type or a NULL expiry_date.
NoneType == "None"
NoDate == -1

\* ------------------------------------------------------------ characters
LowerLetters == <<"a", "b", "c", "d", "e", "f">>
UpperLetters == <<"A", "B", "C", "D", "E", "F">>

\* str.upper() on the lowercase letters: each maps to its capital.
UpperTable ==
    [ch \in {LowerLetters[i] : i \in DOMAIN LowerLetters} |->
        UpperLetters[CHOOSE i \in DOMAIN LowerLetters : LowerLetters[i] = ch]]

\* str.upper() on one character: a lowercase letter maps to its capital,
\* every other character (digits, capitals, "-") is kept.
UpperChar(ch) == IF ch \in DOMAIN UpperTable THEN UpperTable[ch] ELSE ch

\* str.upper()
Upper(s) == [i \in 1..Len(s) |-> UpperChar(s[i])]

\* str.replace('-', '')
StripHyphens(s) == SelectSeq(s, LAMBDA ch : ch # "-")

\* s[:n]
Prefix(s, n) == SubSeq(s, 1, IF Len(s) < n THEN Len(s) ELSE n)

\* -------------------------------------------------------------- uuid4()
\* str(uuid.uuid4()): 36 characters, lowercase hex in groups 8-4-4-4-12.
\* Uuid1 and Uuid2 differ but agree on their first eight hex digits; the
\* first eight of Uuid3 hold no letter.
UuidTailA == <<"-", "0", "0", "0", "0", "-", "4", "0", "0", "0", "-", "8", "0", "0", "0", "-",
               "0", "0", "0", "0", "0", "0", "0", "0", "0", "0", "0", "1">>
UuidTailB == <<"-", "f", "f", "f", "f", "-", "4", "f", "f", "f", "-", "b", "f", "f", "f", "-",
               "0", "0", "0", "0", "0", "0", "0", "0", "0", "0", "0", "f">>
Uuid1 == <<"a", "1", "b", "2", "c", "3", "d", "4">> \o UuidTailA
Uuid2 == <<"a", "1", "b", "2", "c", "3", "d", "4">> \o UuidTailB
Uuid3 == <<"0", "1", "2", "3", "4", "5", "6", "7">> \o UuidTailA
Uuids == {Uuid1, Uuid2, Uuid3}

\* generate_download_code(length): str(uuid.uuid4()).replace('-', '').upper()[:length]
generate_download_code(uuid, length) == Prefix(Upper(StripHyphens(uuid)), length)

\* file_routes.upload_file: str(uuid.uuid4())[:8].upper()
router_download_code(uuid) == Upper(Prefix(uuid, 8))

\* The codes a caller may present: every code the generator can mint, the
\* same codes typed in lowercase, and one code the generator never mints.
NeverCode == <<"F", "F", "F", "F", "0", "0", "0", "0">>
LookupCodes ==
    {generate_download_code(u, CodeLength) : u \in Uuids}
        \cup {Prefix(u, CodeLength) : u \in Uuids}
        \cup {NeverCode}

\* ------------------------------------------------------------ uploads
\* An UploadFile: filename, content_type, the bytes, and size.  The bytes of
\* FileB and FileBig stand for payloads of the stated size.
FileA == [filename |-> "a.txt", content_type |-> "text/plain",
          content |-> <<72, 73>>, size |-> 2]
FileB == [filename |-> "b.bin", content_type |-> NoneType,
          content |-> <<0, 255, 7>>, size |-> MAX_FILE_SIZE]
FileBig == [filename |-> "big.iso", content_type |-> "application/octet-stream",
            content |-> <<9>>, size |-> MAX_FILE_SIZE + 1]
UploadFiles == {FileA, FileB, FileBig}

\* A faulty validate_file_size: the limit is taken one byte too high.
validate_file_size_one_over(file_size, max_size) == file_size <= max_size + 1

\* validate_file_size(file_size, max_size)
validate_file_size(file_size, max_size) == file_size <= max_size

\* ------------------------------------------------------------------ state
VARIABLES
    backend,    \* "mongo" or "supabase": the deployment
    now,        \* datetime.utcnow(), in days
    files,      \* the files collection / table, in insertion order; a record's
                \* position is its _id / id
    blobs,      \* GridFS (gridfs_id -> file) / the storage bucket (path -> object)
    oids,       \* blobs ever written; the next gridfs_id is oids + 1
    served,     \* served[i]: successful downloads answered from record i
    lost,       \* lost[i]: those of them whose count update failed
    last,       \* the most recent call and how it was answered
    tasks       \* the calls in flight, by caller, when calls are interleaved

vars == <<backend, now, files, blobs, oids, served, lost, last, tasks>>

\* A call and its answer.  code: the code asked for (download, preview) or
\* returned (upload); content, filename, mime: the file a download returns or
\* an upload was given; count: what cleanup returns, or preview's
\* download_count.
Response(op, front, code, status, detail, content, filename, mime, count) ==
    [op |-> op, front |-> front, code |-> code, status |-> status,
     detail |-> detail, content |-> content, filename |-> filename, mime |-> mime,
     count |-> count]

\* An answer that carries no file.
Failure(op, front, code, status, detail) ==
    Response(op, front, code, status, detail, <<>>, "", NoneType, 0)

\* An upload's answer: the request's file, echoed.
UploadResponse(front, code, status, detail, file) ==
    Response("upload", front, code, status, detail, file.content, file.filename,
             file.content_type, 0)

\* What a handler computes: the stores after it, and its response.
Result(fs, bs, o, resp) == [files |-> fs, blobs |-> bs, oids |-> o, resp |-> resp]

\* ----------------------------------------- database/mongodb_client.py
\* create_file_record: the document inserted into the files collection.
mongo_file_record(download_code, file, gridfs_id, utcnow) ==
    [download_code |-> Upper(download_code),
     original_filename |-> file.filename,
     file_size |-> file.size,
     mime_type |-> file.content_type,
     blob |-> gridfs_id,
     download_count |-> 0,
     expiry_date |-> utcnow + ExpiryDays,
     is_active |-> TRUE]

\* get_file_by_code: the documents find_one may return, those with the
\* upper-cased code and is_active true.  find_one returns one of them.
get_file_by_code(fs, download_code) ==
    {i \in DOMAIN fs : fs[i].download_code = Upper(download_code) /\ fs[i].is_active}

\* A faulty increment_download_count: {"$set": {"download_count": 1}}.
increment_download_count_set(fs, id) ==
    [fs EXCEPT ![id].download_count = 1]

\* increment_download_count: {"$inc": {"download_count": 1}} on one _id.
increment_download_count(fs, id) ==
    [fs EXCEPT ![id].download_count = @ + 1]

\* cleanup_expired_files: the find filter.
mongo_expired(fs, utcnow) ==
    {i \in DOMAIN fs : fs[i].expiry_date <= utcnow /\ fs[i].is_active}

\* A faulty deactivation: is_active is flipped, not set to False.
set_inactive_flip(fs, ids) ==
    [i \in DOMAIN fs |-> IF i \in ids THEN [fs[i] EXCEPT !.is_active = ~@] ELSE fs[i]]

\* cleanup_expired_files: {"$set": {"is_active": False}} on one _id.
set_inactive(fs, ids) ==
    [i \in DOMAIN fs |-> IF i \in ids THEN [fs[i] EXCEPT !.is_active = FALSE] ELSE fs[i]]

\* gridfs_bucket.delete / storage remove, for a set of references.
delete_blobs(bs, refs) == [r \in DOMAIN bs \ refs |-> bs[r]]

\* cleanup_expired_files.  fault = "query": the find raises, 0 is returned.
\* outcome[i], for each expired record i the cursor yields: "ok"; or
\* "delete_failed", gridfs_bucket.delete raised, so the except clause skipped
\* the update; or "update_failed", the delete went through and update_one
\* raised.  Only "ok" counts.  gridfs_bucket.delete raises NoFile for a blob
\* that is not there, whatever outcome says.
CleanupOutcomes == {"ok", "delete_failed", "update_failed"}

mongo_cleanup_expired_files(fs, bs, o, utcnow, fault, outcome) ==
    IF fault = "query"
    THEN Result(fs, bs, o, Failure("cleanup", "mongo", <<>>, 0, "Cleanup error"))
    ELSE LET expired == mongo_expired(fs, utcnow)
             reached == {i \in expired :
                             outcome[i] # "delete_failed" /\ fs[i].blob \in DOMAIN bs}
             deleted == {fs[i].blob : i \in reached}
             cleaned == {i \in reached : outcome[i] = "ok"}
         IN  Result(set_inactive(fs, cleaned), delete_blobs(bs, deleted), o,
                    Response("cleanup", "mongo", <<>>, 0, "", <<>>, "", NoneType,
                             Cardinality(cleaned)))

\* --------------------------------------------------------------- main.py
\* A faulty upload_file: create_file_record is called before
\* upload_file_to_mongodb, so a failed blob write leaves the record behind.
main_upload_file_record_first(fs, bs, o, utcnow, file, uuid, fault) ==
    IF ~validate_file_size(file.size, MAX_FILE_SIZE)
    THEN Result(fs, bs, o,
                UploadResponse("main", <<>>, 413, "File size exceeds 100MB limit", file))
    ELSE LET download_code == generate_download_code(uuid, CodeLength)
             file_id == o + 1
             fs2 == Append(fs, mongo_file_record(download_code, file, file_id, utcnow))
             bs2 == bs @@ (file_id :> [content |-> file.content, filename |-> file.filename])
         IN  IF fault = "insert"
             THEN Result(fs, bs, o,
                         UploadResponse("main", <<>>, 500, "Failed to create file record",
                                        file))
             ELSE IF fault = "blob"
             THEN Result(fs2, bs, o,
                         UploadResponse("main", <<>>, 500, "File upload failed", file))
             ELSE Result(fs2, bs2, file_id,
                         UploadResponse("main", download_code, 200,
                                        "File uploaded successfully", file))

\* upload_file.  fault = "blob": GridFS upload_from_stream raises; fault =
\* "insert": insert_one raises.
main_upload_file(fs, bs, o, utcnow, file, uuid, fault) ==
    IF ~validate_file_size(file.size, MAX_FILE_SIZE)
    THEN Result(fs, bs, o,
                UploadResponse("main", <<>>, 413, "File size exceeds 100MB limit", file))
    ELSE LET download_code == generate_download_code(uuid, CodeLength)
             file_id == o + 1
             bs2 == bs @@ (file_id :> [content |-> file.content, filename |-> file.filename])
         IN  IF fault = "blob"
             THEN Result(fs, bs, o,
                         UploadResponse("main", <<>>, 500, "File upload failed", file))
             ELSE IF fault = "insert"
             THEN Result(fs, bs2, file_id,
                         UploadResponse("main", <<>>, 500, "Failed to create file record",
                                        file))
             ELSE Result(Append(fs, mongo_file_record(download_code, file, file_id, utcnow)),
                         bs2, file_id,
                         UploadResponse("main", download_code, 200,
                                        "File uploaded successfully", file))

\* A faulty preview_file: it counts the preview as a download.
main_preview_file_counting(fs, bs, o, download_code, rec) ==
    IF rec = 0
    THEN Result(fs, bs, o,
                Failure("preview", "main", download_code, 404, "Invalid download code"))
    ELSE Result(increment_download_count(fs, rec), bs, o,
                Response("preview", "main", download_code, 200, "", <<>>,
                         fs[rec].original_filename, fs[rec].mime_type,
                         fs[rec].download_count))

\* preview_file.  rec: what get_file_by_code returned, 0 for None.
main_preview_file(fs, bs, o, download_code, rec) ==
    IF rec = 0
    THEN Result(fs, bs, o,
                Failure("preview", "main", download_code, 404, "Invalid download code"))
    ELSE Result(fs, bs, o,
                Response("preview", "main", download_code, 200, "", <<>>,
                         fs[rec].original_filename, fs[rec].mime_type,
                         fs[rec].download_count))

\* download_file.  rec: what get_file_by_code returned, 0 for None; fault =
\* "read": the GridFS read raises; fault = "increment": the count update raises.
main_download_file(fs, bs, o, download_code, rec, fault) ==
    IF rec = 0
    THEN Result(fs, bs, o,
                Failure("download", "main", download_code, 404, "Invalid download code"))
    ELSE IF fault = "read" \/ fs[rec].blob \notin DOMAIN bs
    THEN Result(fs, bs, o,
                Failure("download", "main", download_code, 404, "File download failed"))
    ELSE Result(IF fault = "increment" THEN fs ELSE increment_download_count(fs, rec), bs, o,
                Response("download", "main", download_code, 200, "",
                         bs[fs[rec].blob].content, bs[fs[rec].blob].filename,
                         fs[rec].mime_type, 0))

\* ---------------------------------------------------------- streamlit.py
\* The dashboard works on the same files collection and GridFS bucket as
\* main.py, through database/mongodb_client_sync.py.  It has no status
\* codes: status is 200 where st.success is shown and 0 where st.error is.

\* get_file_by_code_sync: as get_file_by_code.
get_file_by_code_sync(fs, download_code) ==
    {i \in DOMAIN fs : fs[i].download_code = Upper(download_code) /\ fs[i].is_active}

\* increment_download_count_sync: one $inc on one _id.
increment_download_count_sync(fs, id) ==
    [fs EXCEPT ![id].download_count = @ + 1]

\* A faulty download_section: the count is raised before the blob is read.
streamlit_download_section_counting_first(fs, bs, o, download_code, rec, fault) ==
    IF rec = 0
    THEN Result(fs, bs, o,
                Failure("download", "streamlit", Upper(download_code), 0,
                        "Invalid download code! File not found."))
    ELSE IF fault = "read" \/ fs[rec].blob \notin DOMAIN bs
    THEN Result(increment_download_count_sync(fs, rec), bs, o,
                Failure("download", "streamlit", Upper(download_code), 0,
                        "Download failed: File download failed"))
    ELSE Result(IF fault = "increment" THEN fs ELSE increment_download_count_sync(fs, rec),
                bs, o,
                Response("download", "streamlit", Upper(download_code), 200, "",
                         bs[fs[rec].blob].content, bs[fs[rec].blob].filename,
                         fs[rec].mime_type, fs[rec].download_count + 1))

\* download_section, for a code of 8 characters and a press of the button.
\* The text input is upper-cased.  rec: what get_file_by_code_sync returned,
\* 0 for None; fault = "read": download_file_from_mongodb_sync raises, which
\* the except clause shows as an error; fault = "increment": the count
\* update raises inside increment_download_count_sync, which returns False.
\* count: the "Downloads" figure shown, the loaded count plus one.
streamlit_download_section(fs, bs, o, download_code, rec, fault) ==
    IF rec = 0
    THEN Result(fs, bs, o,
                Failure("download", "streamlit", Upper(download_code), 0,
                        "Invalid download code! File not found."))
    ELSE IF fault = "read" \/ fs[rec].blob \notin DOMAIN bs
    THEN Result(fs, bs, o,
                Failure("download", "streamlit", Upper(download_code), 0,
                        "Download failed: File download failed"))
    ELSE Result(IF fault = "increment" THEN fs ELSE increment_download_count_sync(fs, rec),
                bs, o,
                Response("download", "streamlit", Upper(download_code), 200, "",
                         bs[fs[rec].blob].content, bs[fs[rec].blob].filename,
                         fs[rec].mime_type, fs[rec].download_count + 1))

\* preview_section.  mime_type.startswith raises on a None mime_type, after
\* the record's fields have been shown.
streamlit_preview_section(fs, bs, o, download_code, rec) ==
    IF rec = 0
    THEN Result(fs, bs, o,
                Failure("preview", "streamlit", Upper(download_code), 0,
                        "Invalid preview code! File not found."))
    ELSE IF fs[rec].mime_type = NoneType
    THEN Result(fs, bs, o,
                Failure("preview", "streamlit", Upper(download_code), 0,
                        "Preview failed: 'NoneType' object has no attribute 'startswith'"))
    ELSE Result(fs, bs, o,
                Response("preview", "streamlit", Upper(download_code), 200, "", <<>>,
                         fs[rec].original_filename, fs[rec].mime_type,
                         fs[rec].download_count))

\* ---------------------------------------- database/supabase_client.py
\* f"{download_code}/{file.filename}"
storage_path(download_code, filename) == <<download_code, filename>>

\* The files table's unique index on download_code: an insert goes through
\* when no row, active or not, holds the code.
unique_download_code(fs, download_code) ==
    \A i \in DOMAIN fs : fs[i].download_code # download_code

\* A faulty create_file_record: expiry_days = 0 still sets an expiry date.
supabase_file_record_ttl_inclusive(download_code, file, file_path, expiry_days, utcnow) ==
    [download_code |-> download_code,
     original_filename |-> file.filename,
     file_size |-> file.size,
     mime_type |-> file.content_type,
     blob |-> file_path,
     download_count |-> 0,
     expiry_date |-> IF expiry_days >= 0 THEN utcnow + expiry_days ELSE NoDate,
     is_active |-> TRUE]

\* create_file_record: the row it adds.
supabase_file_record(download_code, file, file_path, expiry_days, utcnow) ==
    [download_code |-> download_code,
     original_filename |-> file.filename,
     file_size |-> file.size,
     mime_type |-> file.content_type,
     blob |-> file_path,
     download_count |-> 0,
     expiry_date |-> IF expiry_days > 0 THEN utcnow + expiry_days ELSE NoDate,
     is_active |-> TRUE]

\* upload_file_to_supabase followed by create_file_record, for a code from
\* generate_download_code.  The upload is made with upsert false: it fails
\* when the path is taken.  fault = "blob": the upload fails; fault =
\* "commit": db.commit raises and the session is rolled back.
supabase_store(fs, bs, o, utcnow, file, uuid, expiry_days, fault) ==
    LET download_code == generate_download_code(uuid, CodeLength)
        file_path == storage_path(download_code, file.filename)
        bs2 == bs @@ (file_path :> [content |-> file.content])
    IN  IF fault = "blob" \/ file_path \in DOMAIN bs
        THEN Result(fs, bs, o, UploadResponse("supabase", <<>>, 500, "Upload failed", file))
        ELSE IF fault = "commit" \/ ~unique_download_code(fs, download_code)
        THEN Result(fs, bs2, o + 1,
                    UploadResponse("supabase", <<>>, 500, "Failed to create file record", file))
        ELSE Result(Append(fs, supabase_file_record(download_code, file, file_path,
                                                    expiry_days, utcnow)),
                    bs2, o + 1,
                    UploadResponse("supabase", download_code, 200, "", file))

\* A faulty deactivate_file: the soft delete also clears download_count.
deactivate_file_resetting(fs, bs, o, rec, fault) ==
    IF fault = "commit"
    THEN Result(fs, bs, o, Failure("deactivate", "supabase", <<>>, 0, "Failed to deactivate file"))
    ELSE Result([set_inactive(fs, {rec}) EXCEPT ![rec].download_count = 0], bs, o,
                Response("deactivate", "supabase", <<>>, 0, "", <<>>, "", NoneType, 1))

\* supabase_client.get_file_by_code: the rows first() may return, those with
\* the upper-cased code and is_active true.
supabase_get_file_by_code(fs, download_code) ==
    {i \in DOMAIN fs : fs[i].download_code = Upper(download_code) /\ fs[i].is_active}

\* deactivate_file.  fault = "commit": db.commit raises, the session is
\* rolled back and False is returned (count 0); True is count 1.
deactivate_file(fs, bs, o, rec, fault) ==
    IF fault = "commit"
    THEN Result(fs, bs, o, Failure("deactivate", "supabase", <<>>, 0, "Failed to deactivate file"))
    ELSE Result(set_inactive(fs, {rec}), bs, o,
                Response("deactivate", "supabase", <<>>, 0, "", <<>>, "", NoneType, 1))

\* cleanup_expired_files: the query filter.  A NULL expiry_date matches no
\* comparison.
supabase_expired(fs, utcnow) ==
    {i \in DOMAIN fs :
        fs[i].expiry_date # NoDate /\ fs[i].expiry_date <= utcnow /\ fs[i].is_active}

\* A faulty cleanup_expired_files: a failed commit is not rolled back as a
\* whole, the marks of the records whose blob was removed stay.
supabase_cleanup_expired_files_partial(fs, bs, o, utcnow, removed, fault) ==
    IF fault = "query"
    THEN Result(fs, bs, o, Failure("cleanup", "supabase", <<>>, 0, "Cleanup error"))
    ELSE LET expired == supabase_expired(fs, utcnow)
             bs2 == delete_blobs(bs, {fs[i].blob : i \in removed})
         IN  IF fault = "commit"
             THEN Result(set_inactive(fs, removed), bs2, o,
                         Failure("cleanup", "supabase", <<>>, 0, "Cleanup error"))
             ELSE Result(set_inactive(fs, expired), bs2, o,
                         Response("cleanup", "supabase", <<>>, 0, "", <<>>, "", NoneType,
                                  Cardinality(expired)))

\* cleanup_expired_files.  removed: the expired records whose scheduled
\* delete_file_from_supabase task ran and removed the object; for the others
\* create_task raised or the removal failed.  fault = "query": the query
\* raises; fault = "commit": the one commit after the loop raises, the
\* session is rolled back and 0 is returned.
supabase_cleanup_expired_files(fs, bs, o, utcnow, removed, fault) ==
    IF fault = "query"
    THEN Result(fs, bs, o, Failure("cleanup", "supabase", <<>>, 0, "Cleanup error"))
    ELSE LET expired == supabase_expired(fs, utcnow)
             bs2 == delete_blobs(bs, {fs[i].blob : i \in removed})
         IN  IF fault = "commit"
             THEN Result(fs, bs2, o, Failure("cleanup", "supabase", <<>>, 0, "Cleanup error"))
             ELSE Result(set_inactive(fs, expired), bs2, o,
                         Response("cleanup", "supabase", <<>>, 0, "", <<>>, "", NoneType,
                                  Cardinality(expired)))

\* ------------------------------------------------- routes/file_routes.py
\* The query of download_file and preview_file: by download_code alone, as
\* given.
router_query(fs, download_code) ==
    {i \in DOMAIN fs : fs[i].download_code = download_code}

\* upload_file: the FileRecord it adds; expiry_date is not set.
router_file_record(download_code, file, file_path) ==
    [download_code |-> download_code,
     original_filename |-> file.filename,
     file_size |-> file.size,
     mime_type |-> file.content_type,
     blob |-> file_path,
     download_count |-> 0,
     expiry_date |-> NoDate,
     is_active |-> TRUE]

\* upload_file.  The size check is made before the try block; every failure
\* inside it becomes a 500.
router_upload_file(fs, bs, o, file, uuid, fault) ==
    IF file.size > MAX_FILE_SIZE
    THEN Result(fs, bs, o, UploadResponse("router", <<>>, 413, "File too large", file))
    ELSE LET download_code == router_download_code(uuid)
             file_path == storage_path(download_code, file.filename)
             bs2 == bs @@ (file_path :> [content |-> file.content])
         IN  IF fault = "blob" \/ file_path \in DOMAIN bs
             THEN Result(fs, bs, o, UploadResponse("router", <<>>, 500, "Upload failed", file))
             ELSE IF fault = "commit" \/ ~unique_download_code(fs, download_code)
             THEN Result(fs, bs2, o + 1,
                         UploadResponse("router", <<>>, 500, "commit failed", file))
             ELSE Result(Append(fs, router_file_record(download_code, file, file_path)),
                         bs2, o + 1,
                         UploadResponse("router", download_code, 200,
                                        "File uploaded successfully", file))

\* download_file.  rec: what first() returned, 0 for None.  The 404 raised
\* inside the try block is caught by its except Exception clause and raised
\* again as a 500 whose detail is str(e).  fault = "query": the query raises;
\* fault = "read": the storage download fails; fault = "commit": db.commit
\* raises.
router_download_file(fs, bs, o, download_code, rec, fault) ==
    IF fault = "query"
    THEN Result(fs, bs, o, Failure("download", "router", download_code, 500, "query failed"))
    ELSE IF rec = 0
    THEN Result(fs, bs, o,
                Failure("download", "router", download_code, 500, "404: Invalid download code"))
    ELSE IF fault = "read" \/ fs[rec].blob \notin DOMAIN bs
    THEN Result(fs, bs, o,
                Failure("download", "router", download_code, 500, "404: File download failed"))
    ELSE IF fault = "commit"
    THEN Result(fs, bs, o, Failure("download", "router", download_code, 500, "commit failed"))
    ELSE Result([fs EXCEPT ![rec].download_count = @ + 1], bs, o,
                Response("download", "router", download_code, 200, "",
                         bs[fs[rec].blob].content, fs[rec].original_filename,
                         fs[rec].mime_type, 0))

\* preview_file.  mime_type.startswith raises on a None mime_type.
router_preview_file(fs, bs, o, download_code, rec, fault) ==
    IF fault = "query"
    THEN Result(fs, bs, o, Failure("preview", "router", download_code, 500, "query failed"))
    ELSE IF rec = 0
    THEN Result(fs, bs, o,
                Failure("preview", "router", download_code, 500, "404: Invalid download code"))
    ELSE IF fs[rec].mime_type = NoneType
    THEN Result(fs, bs, o,
                Failure("preview", "router", download_code, 500,
                        "'NoneType' object has no attribute 'startswith'"))
    ELSE Result(fs, bs, o,
                Response("preview", "router", download_code, 200, "", <<>>,
                         fs[rec].original_filename, fs[rec].mime_type,
                         fs[rec].download_count))

\* ------------------------------------------------------------------ Init
\* The callers whose calls may be in flight at once: two requests, or two
\* workers, against the same stores.
Callers == {"c1", "c2"}

\* A call in flight.  pc: where it stands; rec: the record it holds; seen:
\* the download_count its session loaded; todo: the expired records its
\* cleanup has still to visit; cleaned: the records its cleanup has counted;
\* flipped: the records whose is_active its cleanup turned from true to false.
Task(pc, rec, seen, todo, cleaned, flipped) ==
    [pc |-> pc, rec |-> rec, seen |-> seen, todo |-> todo, cleaned |-> cleaned,
     flipped |-> flipped]

IdleTask == Task("idle", 0, 0, {}, {}, {})

Init ==
    /\ backend \in {"mongo", "supabase"}
    /\ now = 0
    /\ files = <<>>
    /\ blobs = <<>>
    /\ oids = 0
    /\ served = <<>>
    /\ lost = <<>>
    /\ last = [op |-> "init", front |-> "", status |-> 0, detail |-> "", count |-> 0]
    /\ tasks = [c \in Callers |-> IdleTask]

RECURSIVE Sum(_)
Sum(s) == IF s = <<>> THEN 0 ELSE Head(s) + Sum(Tail(s))

\* The calls made so far that count against MaxCalls.
Work == oids + Sum(served) + (now \div ExpiryDays)

\* What last keeps of a response.
Observed(resp) ==
    [op |-> resp.op, front |-> resp.front, status |-> resp.status,
     detail |-> resp.detail, count |-> resp.count]

\* The stores and the response take a handler's result; a new record starts
\* with nothing served.
Apply(res) ==
    /\ files' = res.files
    /\ blobs' = res.blobs
    /\ oids' = res.oids
    /\ last' = Observed(res.resp)
    /\ served' = IF Len(res.files) > Len(files) THEN Append(served, 0) ELSE served
    /\ lost' = IF Len(res.files) > Len(files) THEN Append(lost, 0) ELSE lost
    /\ UNCHANGED <<backend, now, tasks>>

\* A download's result, with the record it was served from (0: none) and
\* whether its count update was lost.
ApplyDownload(res, rec, lostUpdate) ==
    /\ files' = res.files
    /\ blobs' = res.blobs
    /\ oids' = res.oids
    /\ last' = Observed(res.resp)
    /\ served' = IF res.resp.status = 200 THEN [served EXCEPT ![rec] = @ + 1] ELSE served
    /\ lost' = IF res.resp.status = 200 /\ lostUpdate
               THEN [lost EXCEPT ![rec] = @ + 1] ELSE lost
    /\ UNCHANGED <<backend, now, tasks>>

\* A faulty lookup: a query that raised still hands back a record.
Found_despite_failure(matches, fault) == IF matches # {} THEN matches ELSE {0}

\* What find_one / first() hands back: one of the matching records, or 0
\* (None) when nothing matches or the query raised.
Found(matches, fault) == IF fault # "query" /\ matches # {} THEN matches ELSE {0}

\* Uploads a front end accepts for storing.
StorableFiles == {f \in UploadFiles : validate_file_size(f.size, MAX_FILE_SIZE)}

\* ------------------------------------------------------- main.py actions
MainUpload ==
    /\ backend = "mongo"
    /\ Work < MaxCalls
    /\ \E file \in UploadFiles, uuid \in Uuids, fault \in {"none", "blob", "insert"} :
           Apply(main_upload_file(files, blobs, oids, now, file, uuid, fault))

MainPreview ==
    /\ backend = "mongo"
    /\ \E code \in LookupCodes, fault \in {"none", "query"} :
       \E rec \in Found(get_file_by_code(files, code), fault) :
           Apply(main_preview_file(files, blobs, oids, code, rec))

MainDownload ==
    /\ backend = "mongo"
    /\ Work < MaxCalls
    /\ \E code \in LookupCodes, fault \in {"none", "query", "read", "increment"} :
       \E rec \in Found(get_file_by_code(files, code), fault) :
           ApplyDownload(main_download_file(files, blobs, oids, code, rec, fault),
                         rec, fault = "increment")

MongoCleanup ==
    /\ backend = "mongo"
    /\ \/ \E outcome \in [mongo_expired(files, now) -> CleanupOutcomes] :
              Apply(mongo_cleanup_expired_files(files, blobs, oids, now, "none", outcome))
       \/ Apply(mongo_cleanup_expired_files(files, blobs, oids, now, "query", <<>>))

\* -------------------------------------------------- streamlit.py actions
StreamlitDownload ==
    /\ backend = "mongo"
    /\ Work < MaxCalls
    /\ \E code \in LookupCodes, fault \in {"none", "query", "read", "increment"} :
       \E rec \in Found(get_file_by_code_sync(files, Upper(code)), fault) :
           ApplyDownload(streamlit_download_section(files, blobs, oids, code, rec, fault),
                         rec, fault = "increment")

StreamlitPreview ==
    /\ backend = "mongo"
    /\ \E code \in LookupCodes, fault \in {"none", "query"} :
       \E rec \in Found(get_file_by_code_sync(files, Upper(code)), fault) :
           Apply(streamlit_preview_section(files, blobs, oids, code, rec))

\* ------------------------------------------- routes/file_routes.py actions
RouterUpload ==
    /\ backend = "supabase"
    /\ Work < MaxCalls
    /\ \E file \in UploadFiles, uuid \in Uuids, fault \in {"none", "blob", "commit"} :
           Apply(router_upload_file(files, blobs, oids, file, uuid, fault))

RouterPreview ==
    /\ backend = "supabase"
    /\ \E code \in LookupCodes, fault \in {"none", "query"} :
       \E rec \in Found(router_query(files, code), fault) :
           Apply(router_preview_file(files, blobs, oids, code, rec, fault))

RouterDownload ==
    /\ backend = "supabase"
    /\ Work < MaxCalls
    /\ \E code \in LookupCodes, fault \in {"none", "query", "read", "commit"} :
       \E rec \in Found(router_query(files, code), fault) :
           ApplyDownload(router_download_file(files, blobs, oids, code, rec, fault),
                         rec, FALSE)

\* ----------------------------------- database/supabase_client.py actions
SupabaseStore ==
    /\ backend = "supabase"
    /\ Work < MaxCalls
    /\ \E file \in StorableFiles, uuid \in Uuids, expiry_days \in {0, ExpiryDays},
          fault \in {"none", "blob", "commit"} :
           Apply(supabase_store(files, blobs, oids, now, file, uuid, expiry_days, fault))

SupabaseDeactivate ==
    /\ backend = "supabase"
    /\ \E rec \in DOMAIN files, fault \in {"none", "commit"} :
           Apply(deactivate_file(files, blobs, oids, rec, fault))

SupabaseCleanup ==
    /\ backend = "supabase"
    /\ \E removed \in SUBSET supabase_expired(files, now),
          fault \in {"none", "query", "commit"} :
           Apply(supabase_cleanup_expired_files(files, blobs, oids, now, removed, fault))

\* A week passes.
Tick ==
    /\ Work < MaxCalls
    /\ now' = now + ExpiryDays
    /\ last' = [op |-> "tick", front |-> "", status |-> 0, detail |-> "", count |-> 0]
    /\ UNCHANGED <<backend, files, blobs, oids, served, lost, tasks>>

Next ==
    \/ MainUpload
    \/ MainPreview
    \/ MainDownload
    \/ MongoCleanup
    \/ StreamlitDownload
    \/ StreamlitPreview
    \/ RouterUpload
    \/ RouterPreview
    \/ RouterDownload
    \/ SupabaseStore
    \/ SupabaseDeactivate
    \/ SupabaseCleanup
    \/ Tick

Spec == Init /\ [][Next]_vars

\* ------------------------------------------------------ interleaved calls
\* SpecRace: downloads and cleanups run as the steps their code makes
\* between two store calls, so that the calls of two callers interleave;
\* an upload is one step and no store fails in it.  The store calls of a
\* download do not fail here; a cleanup's delete and update may.

\* The lookup of a download: get_file_by_code in main.py, the query of
\* routes/file_routes.py.
Lookup(fs, download_code) ==
    IF backend = "mongo" THEN get_file_by_code(fs, download_code)
    ELSE router_query(fs, download_code)

\* The download handler of the deployment.
download_file(fs, bs, o, download_code, rec, fault) ==
    IF backend = "mongo" THEN main_download_file(fs, bs, o, download_code, rec, fault)
    ELSE router_download_file(fs, bs, o, download_code, rec, fault)

\* The filter of the deployment's cleanup_expired_files.
Expired(fs, utcnow) ==
    IF backend = "mongo" THEN mongo_expired(fs, utcnow) ELSE supabase_expired(fs, utcnow)

\* routes/file_routes.py: file_record.download_count += 1; db.commit().  The
\* session writes back the count it loaded, plus one.
router_commit_download_count(fs, rec, seen) ==
    [fs EXCEPT ![rec].download_count = seen + 1]

\* Downloads in flight.
InFlight == Cardinality({c \in Callers : tasks[c].pc \in {"read", "count"}})

\* The cursor's next record: the expired records come in insertion order.
NextTodo(todo) == CHOOSE i \in todo : \A j \in todo : i <= j

\* A caller free to start a call.  The callers are interchangeable: the
\* second starts a call only while the first has one in flight.
Free(c) ==
    /\ tasks[c].pc = "idle"
    /\ \A d \in Callers : (d # c /\ tasks[d].pc = "idle") => c = "c1"

\* An upload that expires after ExpiryDays: main.py's on mongo,
\* upload_file_to_supabase and create_file_record on supabase.
RaceStore ==
    /\ Work + InFlight < MaxCalls
    /\ \E uuid \in Uuids :
           Apply(IF backend = "mongo"
                 THEN main_upload_file(files, blobs, oids, now, FileA, uuid, "none")
                 ELSE supabase_store(files, blobs, oids, now, FileA, uuid, ExpiryDays,
                                     "none"))

\* download_file, first step: the record is looked up.  None is answered
\* at once; otherwise the caller holds the record.
FetchLookup(c) ==
    /\ Free(c)
    /\ Work + InFlight < MaxCalls
    /\ \E code \in LookupCodes :
       \E rec \in Found(Lookup(files, code), "none") :
           IF rec = 0
           THEN /\ last' = Observed(download_file(files, blobs, oids, code, 0, "none").resp)
                /\ UNCHANGED tasks
           ELSE /\ tasks' = [tasks EXCEPT ![c] =
                                 Task("read", rec,
                                      IF backend = "mongo" THEN 0
                                      ELSE files[rec].download_count, {}, {}, {})]
                /\ UNCHANGED last
    /\ UNCHANGED <<backend, now, files, blobs, oids, served, lost>>

\* download_file, second step: the blob is read.  A missing blob is
\* answered as the handler answers a failed read.
FetchRead(c) ==
    /\ tasks[c].pc = "read"
    /\ IF files[tasks[c].rec].blob \in DOMAIN blobs
       THEN /\ tasks' = [tasks EXCEPT ![c].pc = "count"]
            /\ UNCHANGED last
       ELSE /\ tasks' = [tasks EXCEPT ![c] = IdleTask]
            /\ last' = Observed(download_file(files, blobs, oids, <<>>, tasks[c].rec,
                                              "read").resp)
    /\ UNCHANGED <<backend, now, files, blobs, oids, served, lost>>

\* download_file, third step: the count is updated and the file returned:
\* one $inc in mongodb_client, the session's commit in routes/file_routes.py.
FetchCount(c) ==
    /\ tasks[c].pc = "count"
    /\ files' = IF backend = "mongo"
                THEN increment_download_count(files, tasks[c].rec)
                ELSE router_commit_download_count(files, tasks[c].rec, tasks[c].seen)
    /\ served' = [served EXCEPT ![tasks[c].rec] = @ + 1]
    /\ last' = [op |-> "download", front |-> IF backend = "mongo" THEN "main" ELSE "router",
                status |-> 200, detail |-> "", count |-> 0]
    /\ tasks' = [tasks EXCEPT ![c] = IdleTask]
    /\ UNCHANGED <<backend, now, blobs, oids, lost>>

\* cleanup_expired_files, first step: the expired, active records are read.
SweepFind(c) ==
    /\ Free(c)
    /\ Expired(files, now) # {}
    /\ tasks' = [tasks EXCEPT ![c] = Task("sweep", 0, 0, Expired(files, now), {}, {})]
    /\ UNCHANGED <<backend, now, files, blobs, oids, served, lost, last>>

\* mongodb_client.cleanup_expired_files, in the loop: gridfs_bucket.delete.
\* It removes the blob, or it raises (always so when the blob is not there)
\* and the except clause moves on to the next record.
SweepDelete(c) ==
    /\ backend = "mongo"
    /\ tasks[c].pc = "sweep"
    /\ tasks[c].todo # {}
    /\ LET i == NextTodo(tasks[c].todo)
       IN  \/ /\ files[i].blob \in DOMAIN blobs
              /\ blobs' = delete_blobs(blobs, {files[i].blob})
              /\ tasks' = [tasks EXCEPT ![c].pc = "update", ![c].rec = i]
           \/ /\ tasks' = [tasks EXCEPT ![c].todo = @ \ {i}]
              /\ UNCHANGED blobs
    /\ UNCHANGED <<backend, now, files, oids, served, lost, last>>

\* mongodb_client.cleanup_expired_files, in the loop: update_one sets
\* is_active False and the record is counted, or update_one raises.
SweepUpdate(c) ==
    /\ backend = "mongo"
    /\ tasks[c].pc = "update"
    /\ LET i == tasks[c].rec
       IN  \/ /\ files' = set_inactive(files, {i})
              /\ tasks' = [tasks EXCEPT ![c] =
                               Task("sweep", 0, 0, @.todo \ {i}, @.cleaned \cup {i},
                                    @.flipped \cup (IF files[i].is_active THEN {i} ELSE {}))]
           \/ /\ tasks' = [tasks EXCEPT ![c].pc = "sweep", ![c].rec = 0, ![c].todo = @ \ {i}]
              /\ UNCHANGED files
    /\ UNCHANGED <<backend, now, blobs, oids, served, lost, last>>

\* supabase_client.cleanup_expired_files, the loop and the commit: every
\* record read is marked and counted, the deletions scheduled remove the
\* blobs in removed, and the commit writes the marks; or the commit raises,
\* the session is rolled back and nothing is counted.
SweepCommit(c) ==
    /\ backend = "supabase"
    /\ tasks[c].pc = "sweep"
    /\ tasks[c].todo # {}
    /\ \E removed \in SUBSET tasks[c].todo :
           /\ blobs' = delete_blobs(blobs, {files[i].blob : i \in removed})
           /\ \/ /\ files' = set_inactive(files, tasks[c].todo)
                 /\ tasks' = [tasks EXCEPT ![c] =
                                  Task("sweep", 0, 0, {}, @.todo,
                                       {i \in @.todo : files[i].is_active})]
              \/ /\ tasks' = [tasks EXCEPT ![c].pc = "failed", ![c].todo = {}]
                 /\ UNCHANGED files
    /\ UNCHANGED <<backend, now, oids, served, lost, last>>

\* cleanup_expired_files returns its count.
SweepEnd(c) ==
    /\ tasks[c].pc \in {"sweep", "failed"}
    /\ tasks[c].todo = {}
    /\ last' = [op |-> "cleanup", front |-> backend, status |-> 0,
                detail |-> IF tasks[c].pc = "failed" THEN "Cleanup error" ELSE "",
                count |-> Cardinality(tasks[c].cleaned)]
    /\ tasks' = [tasks EXCEPT ![c] = IdleTask]
    /\ UNCHANGED <<backend, now, files, blobs, oids, served, lost>>

NextRace ==
    \/ RaceStore
    \/ Tick
    \/ \E c \in Callers : FetchLookup(c)
    \/ \E c \in Callers : FetchRead(c)
    \/ \E c \in Callers : FetchCount(c)
    \/ \E c \in Callers : SweepFind(c)
    \/ \E c \in Callers : SweepDelete(c)
    \/ \E c \in Callers : SweepUpdate(c)
    \/ \E c \in Callers : SweepCommit(c)
    \/ \E c \in Callers : SweepEnd(c)

SpecRace == Init /\ [][NextRace]_vars

\* ================================================================ claims
\* A record past its expiry date: expiry_date is set and now >= expiry_date.
PastExpiry(r, utcnow) == r.expiry_date # NoDate /\ r.expiry_date <= utcnow

\* The codes Store has returned: a Store returns its code exactly when it
\* has inserted the record, and no record is ever removed.
IssuedCodes == {files[i].download_code : i \in DOMAIN files}

\* What a download answered with no store failing, from record rec.
MainFetch(fs, bs, o, code, rec) == main_download_file(fs, bs, o, code, rec, "none").resp
RouterFetch(fs, bs, o, code, rec) == router_download_file(fs, bs, o, code, rec, "none").resp

\* The download returned this file.
Returns(resp, file) ==
    /\ resp.status = 200
    /\ resp.content = file.content
    /\ resp.filename = file.filename
    /\ resp.mime = file.content_type

\* C1 (as claimed): in every reachable state, a Store of a file within the
\* cap that succeeds, followed at once by a Fetch of the code it returned,
\* yields the bytes, the filename and the mime type given to the Store.
C1_StoreThenFetchReturnsTheFile ==
    \A file \in StorableFiles, uuid \in Uuids :
        /\ backend = "mongo" =>
               LET up == main_upload_file(files, blobs, oids, now, file, uuid, "none")
               IN  up.resp.status = 200 =>
                       \A rec \in Found(get_file_by_code(up.files, up.resp.code), "none") :
                           Returns(MainFetch(up.files, up.blobs, up.oids, up.resp.code, rec),
                                   file)
        /\ backend = "supabase" =>
               LET up == router_upload_file(files, blobs, oids, file, uuid, "none")
               IN  up.resp.status = 200 =>
                       \A rec \in Found(router_query(up.files, up.resp.code), "none") :
                           Returns(RouterFetch(up.files, up.blobs, up.oids, up.resp.code, rec),
                                   file)

\* C2 (as claimed): in every reachable state, for a code that no Store has
\* returned (in any letter case), download and preview answer 404, the
\* not-found error, in main.py and in routes/file_routes.py alike.
C2_UnknownCodeIsNotFound ==
    \A code \in LookupCodes :
        Upper(code) \notin IssuedCodes =>
            /\ backend = "mongo" =>
                   \A rec \in Found(get_file_by_code(files, code), "none") :
                       /\ MainFetch(files, blobs, oids, code, rec).status = 404
                       /\ main_preview_file(files, blobs, oids, code, rec).resp.status = 404
            /\ backend = "supabase" =>
                   \A rec \in Found(router_query(files, code), "none") :
                       /\ RouterFetch(files, blobs, oids, code, rec).status = 404
                       /\ router_preview_file(files, blobs, oids, code, rec, "none")
                              .resp.status = 404

\* C3 (as claimed): in every reachable state, for a record that is still
\* active and past its expiry date, download of its code answers 404 and
\* returns no bytes, and preview answers 404.
C3_ExpiredActiveRecordIsNotFound ==
    \A code \in LookupCodes :
        /\ backend = "mongo" =>
               \A rec \in get_file_by_code(files, code) :
                   PastExpiry(files[rec], now) =>
                       /\ MainFetch(files, blobs, oids, code, rec).status = 404
                       /\ MainFetch(files, blobs, oids, code, rec).content = <<>>
                       /\ main_preview_file(files, blobs, oids, code, rec).resp.status = 404
        /\ backend = "supabase" =>
               \A rec \in router_query(files, code) :
                   (files[rec].is_active /\ PastExpiry(files[rec], now)) =>
                       /\ RouterFetch(files, blobs, oids, code, rec).status = 404
                       /\ RouterFetch(files, blobs, oids, code, rec).content = <<>>

\* C4 (as claimed): each record's download_count equals the number of
\* successful downloads served from it.
C4_CountEqualsServed ==
    \A i \in DOMAIN files : files[i].download_count = served[i]

\* C4 (amended): each record's download_count equals the number of
\* successful downloads served from it less those whose count update
\* failed; it never exceeds the number served.
C4_CountEqualsServedLessLost ==
    \A i \in DOMAIN files :
        /\ files[i].download_count = served[i] - lost[i]
        /\ files[i].download_count <= served[i]

\* C4 witness: two downloads were served from one record, no count update
\* failed, and its download_count is 2.
C4_Witness ==
    \E i \in DOMAIN files :
        served[i] = 2 /\ lost[i] = 0 /\ files[i].download_count = 2

\* C5 (as claimed): once cleanup has run at time now, whatever failed inside
\* it, download of the code of every record past its expiry date answers
\* 404 not-found, and a second cleanup at the same time returns 0 and leaves
\* records and blobs as they are.
C5_CleanupIsFinalAndIdempotent ==
    (last.op = "cleanup" /\ last.detail = "") =>
        /\ backend = "mongo" =>
               /\ \A i \in DOMAIN files :
                      PastExpiry(files[i], now) =>
                          \A rec \in Found(get_file_by_code(files, files[i].download_code),
                                           "none") :
                              MainFetch(files, blobs, oids, files[i].download_code, rec)
                                  .detail = "Invalid download code"
               /\ \A outcome \in [mongo_expired(files, now) -> CleanupOutcomes] :
                      LET again == mongo_cleanup_expired_files(files, blobs, oids, now,
                                                               "none", outcome)
                      IN  /\ again.resp.count = 0
                          /\ again.files = files
                          /\ again.blobs = blobs
        /\ backend = "supabase" =>
               /\ \A i \in DOMAIN files :
                      PastExpiry(files[i], now) =>
                          \A rec \in Found(router_query(files, files[i].download_code),
                                           "none") :
                              RouterFetch(files, blobs, oids, files[i].download_code, rec)
                                  .status = 404
               /\ \A removed \in SUBSET supabase_expired(files, now) :
                      LET again == supabase_cleanup_expired_files(files, blobs, oids, now,
                                                                  removed, "none")
                      IN  /\ again.resp.count = 0
                          /\ again.files = files
                          /\ again.blobs = blobs

\* C6: in every reachable state, an upload whose size exceeds the cap is
\* answered 413 and leaves the records, the blobs and the blob counter as
\* they are, whichever store would have failed: the size check comes first.
C6_OversizeUploadTouchesNoStore ==
    \A file \in UploadFiles, uuid \in Uuids, fault \in {"none", "blob", "insert", "commit"} :
        file.size > MAX_FILE_SIZE =>
            LET up == IF backend = "mongo"
                      THEN main_upload_file(files, blobs, oids, now, file, uuid, fault)
                      ELSE router_upload_file(files, blobs, oids, file, uuid, fault)
            IN  /\ up.resp.status = 413
                /\ up.files = files
                /\ up.blobs = blobs
                /\ up.oids = oids

\* C6 witness: an upload has just been answered 413 while a record and its
\* blob are in the stores.
C6_Witness ==
    /\ last.op = "upload"
    /\ last.status = 413
    /\ files # <<>>
    /\ DOMAIN blobs # {}

\* C7 (as claimed): in every reachable state no two active records have the
\* same download_code.
C7_ActiveCodesAreUnique ==
    \A i, j \in DOMAIN files :
        (i # j /\ files[i].is_active /\ files[j].is_active) =>
            files[i].download_code # files[j].download_code

\* C8 (as claimed): in every reachable state every active record's blob
\* reference resolves to a blob in the blob store.
C8_ActiveRecordHasItsBlob ==
    \A i \in DOMAIN files : files[i].is_active => files[i].blob \in DOMAIN blobs

\* C9: deactivation is one-way: a record that is inactive before a step is
\* still there and inactive after it, whatever the step.
C9_DeactivationIsOneWay ==
    [][\A i \in DOMAIN files :
           ~files[i].is_active => (i \in DOMAIN files' /\ ~files'[i].is_active)]_vars

\* C9 witness: a record is inactive and an upload has succeeded since.
C9_Witness ==
    /\ \E i \in DOMAIN files : ~files[i].is_active
    /\ last.op = "upload"
    /\ last.status = 200

\* The uploads of the deployment: main.py's on mongo; the router's and the
\* supabase helpers' on supabase.
Uploads(file, uuid, fault) ==
    IF backend = "mongo"
    THEN {main_upload_file(files, blobs, oids, now, file, uuid,
                           IF fault = "record" THEN "insert" ELSE fault)}
    ELSE {router_upload_file(files, blobs, oids, file, uuid,
                             IF fault = "record" THEN "commit" ELSE fault)}
             \cup {supabase_store(files, blobs, oids, now, file, uuid, d,
                                  IF fault = "record" THEN "commit" ELSE fault) :
                       d \in {0, ExpiryDays}}

\* C10: in every reachable state, an upload whose blob write fails is
\* answered with an error and adds no record; and an upload that adds a
\* record has written the blob the record points at, with the file's bytes.
C10_BlobIsWrittenBeforeTheRecord ==
    \A file \in StorableFiles, uuid \in Uuids :
        /\ \A up \in Uploads(file, uuid, "blob") :
               /\ up.resp.status = 500
               /\ up.files = files
               /\ up.blobs = blobs
        /\ \A fault \in {"none", "record"} :
               \A up \in Uploads(file, uuid, fault) :
                   up.files # files =>
                       /\ up.files = Append(files, up.files[Len(up.files)])
                       /\ up.files[Len(up.files)].blob \in DOMAIN up.blobs
                       /\ up.blobs[up.files[Len(up.files)].blob].content = file.content

\* C10 witness: an upload has just failed at its blob write, after another
\* upload had stored a record.
C10_Witness ==
    /\ last.op = "upload"
    /\ last.status = 500
    /\ last.detail \in {"File upload failed", "Upload failed"}
    /\ Len(files) = 1

\* C11 (as claimed): in every reachable state, an upload whose blob write
\* succeeds and whose metadata insert fails is answered with an error, adds
\* no record, and leaves no blob behind: the blob it wrote is deleted again.
C11_FailedInsertLeavesNoBlob ==
    \A file \in StorableFiles, uuid \in Uuids :
        \A up \in Uploads(file, uuid, "record") :
            /\ up.resp.status = 500
            /\ up.files = files
            /\ up.blobs = blobs

\* The codes of the active records.
ActiveCodes == {files[i].download_code : i \in {j \in DOMAIN files : files[j].is_active}}

\* The candidate code an upload draws from its uuid.
Candidate(uuid) ==
    IF backend = "mongo" THEN generate_download_code(uuid, CodeLength)
    ELSE router_download_code(uuid)

\* C12 (as claimed): in every reachable state, an upload whose candidate
\* code is the code of an active record stores nothing under that code: it
\* either adds a record under another, fresh code or adds no record.
C12_CollidingCandidateIsNotStored ==
    \A file \in StorableFiles, uuid \in Uuids :
        Candidate(uuid) \in ActiveCodes =>
            \A up \in Uploads(file, uuid, "none") :
                \/ up.files = files
                \/ up.files[Len(up.files)].download_code # Candidate(uuid)

\* C13: a step that is answered by preview (every step of Spec records the
\* call it made in last) changes nothing: records (download_count
\* included), blobs, the blob counter and the clock are the same after it,
\* whether the code was found (200) or not.
C13_PreviewChangesNothing ==
    [][last'.op = "preview" =>
           UNCHANGED <<backend, now, files, blobs, oids, served, lost, tasks>>]_vars

\* C13 witness: a preview has just answered 200 for a record that had been
\* downloaded once, and reported that count.
C13_Witness ==
    /\ last.op = "preview"
    /\ last.status = 200
    /\ last.count = 1
    /\ \E i \in DOMAIN files : files[i].download_count = 1

\* C14 (as claimed): in every reachable state, a cleanup in which blob
\* deletions fail and nothing else does leaves no record active whose
\* expiry date is at or before now.
C14_DeleteFailureDoesNotBlockDeactivation ==
    /\ backend = "mongo" =>
           \A outcome \in [mongo_expired(files, now) -> {"ok", "delete_failed"}] :
               LET swept == mongo_cleanup_expired_files(files, blobs, oids, now, "none",
                                                        outcome)
               IN  \A i \in mongo_expired(files, now) : ~swept.files[i].is_active
    /\ backend = "supabase" =>
           \A removed \in SUBSET supabase_expired(files, now) :
               LET swept == supabase_cleanup_expired_files(files, blobs, oids, now,
                                                           removed, "none")
               IN  \A i \in supabase_expired(files, now) : ~swept.files[i].is_active

\* Two answers that agree in everything but the code they echo.
SameAnswer(a, b) == [a EXCEPT !.code = <<>>] = [b EXCEPT !.code = <<>>]

\* C17 (as claimed): in every reachable state every record's download_code
\* is in uppercase, and download and preview of a code answer as they do for
\* the same code in uppercase: the same records match and each answer is
\* the same.
C17_CodesAreCaseInsensitive ==
    /\ \A i \in DOMAIN files : files[i].download_code = Upper(files[i].download_code)
    /\ \A code \in LookupCodes :
           /\ backend = "mongo" =>
                  /\ get_file_by_code(files, code) = get_file_by_code(files, Upper(code))
                  /\ \A rec \in Found(get_file_by_code(files, code), "none") :
                         /\ SameAnswer(MainFetch(files, blobs, oids, code, rec),
                                       MainFetch(files, blobs, oids, Upper(code), rec))
                         /\ SameAnswer(main_preview_file(files, blobs, oids, code, rec).resp,
                                       main_preview_file(files, blobs, oids, Upper(code), rec)
                                           .resp)
           /\ backend = "supabase" =>
                  /\ router_query(files, code) = router_query(files, Upper(code))
                  /\ \A rec \in Found(router_query(files, code), "none") :
                         /\ SameAnswer(RouterFetch(files, blobs, oids, code, rec),
                                       RouterFetch(files, blobs, oids, Upper(code), rec))
                         /\ SameAnswer(router_preview_file(files, blobs, oids, code, rec,
                                                           "none").resp,
                                       router_preview_file(files, blobs, oids, Upper(code),
                                                           rec, "none").resp)

\* C18 (as claimed): in every reachable state, a download that finds an
\* active record and fails at its blob read is answered with a status other
\* than the one a download of an absent code is answered with.
C18_BlobMissingIsNotCodeNotFound ==
    \A code \in LookupCodes :
        /\ backend = "mongo" =>
               \A rec \in get_file_by_code(files, code) :
                   main_download_file(files, blobs, oids, code, rec, "read").resp.status
                       # main_download_file(files, blobs, oids, NeverCode, 0, "none")
                             .resp.status
        /\ backend = "supabase" =>
               \A rec \in router_query(files, code) :
                   files[rec].is_active =>
                       router_download_file(files, blobs, oids, code, rec, "read").resp.status
                           # router_download_file(files, blobs, oids, NeverCode, 0, "none")
                                 .resp.status

\* The expiry_days a caller of create_file_record may pass, and the times
\* at which a cleanup may run: the clock's values, a week past them and a
\* day around each.
TtlValues == {-1, 0, 1, ExpiryDays}
SweepTimes ==
    {d * ExpiryDays + e : d \in 0 .. (MaxCalls + 1), e \in {0, 1, ExpiryDays - 1}}

\* A record as Store leaves it: active, never downloaded, and expiring
\* ttl after utcnow when ttl > 0, never otherwise.
FreshRecord(r, utcnow, ttl) ==
    /\ r.is_active
    /\ r.download_count = 0
    /\ r.expiry_date = IF ttl > 0 THEN utcnow + ttl ELSE NoDate

\* C20: in every reachable state, an upload that adds a record adds it
\* active, with download_count 0 and with expiry now + ttl when ttl > 0 and
\* no expiry when ttl <= 0 (main.py: ttl is 7 days; routes/file_routes.py:
\* no ttl); and a record with no expiry is deactivated by no cleanup,
\* whatever the time it runs at, and is served while it is active and its
\* blob is there.
C20_StoreSetsExpiryFromTtl ==
    /\ \A file \in StorableFiles, uuid \in Uuids :
           /\ backend = "mongo" =>
                  LET up == main_upload_file(files, blobs, oids, now, file, uuid, "none")
                  IN  /\ Len(up.files) = Len(files) + 1
                      /\ FreshRecord(up.files[Len(up.files)], now, ExpiryDays)
           /\ backend = "supabase" =>
                  /\ LET up == router_upload_file(files, blobs, oids, file, uuid, "none")
                     IN  up.files # files => FreshRecord(up.files[Len(up.files)], now, 0)
                  /\ \A ttl \in TtlValues :
                         LET up == supabase_store(files, blobs, oids, now, file, uuid, ttl,
                                                  "none")
                         IN  up.files # files =>
                                 FreshRecord(up.files[Len(up.files)], now, ttl)
    /\ \A i \in DOMAIN files :
           (files[i].expiry_date = NoDate /\ files[i].is_active) =>
               /\ backend = "supabase"
               /\ \A utcnow \in SweepTimes :
                      /\ i \notin supabase_expired(files, utcnow)
                      /\ \A removed \in SUBSET supabase_expired(files, utcnow) :
                             supabase_cleanup_expired_files(files, blobs, oids, utcnow,
                                                            removed, "none").files[i].is_active
               /\ files[i].blob \in DOMAIN blobs =>
                      RouterFetch(files, blobs, oids, files[i].download_code, i).status = 200

\* C20 witness: a week or more after the first upload, a cleanup has just
\* run to its end where a record without expiry is active next to a record
\* it deactivated.
C20_Witness ==
    /\ last.op = "cleanup"
    /\ last.detail = ""
    /\ last.count = 1
    /\ now >= ExpiryDays
    /\ \E i \in DOMAIN files : files[i].expiry_date = NoDate /\ files[i].is_active

\* A cleanup in flight that has read record i as expired and has not yet
\* finished with it.
SweepingOn(i) ==
    \E d \in Callers :
        \/ tasks[d].pc = "sweep" /\ i \in tasks[d].todo
        \/ tasks[d].pc = "update" /\ (i = tasks[d].rec \/ i \in tasks[d].todo)

\* C15 (as claimed, under SpecRace): a download that holds a record and
\* makes its blob read while a cleanup is in flight on that record either
\* gets the bytes and goes on to return them, or is answered as an invalid
\* code; it is never answered with a failed blob read.
C15_FetchRacingSweepIsServedOrNotFound ==
    [][\A c \in Callers :
           (tasks[c].pc = "read" /\ SweepingOn(tasks[c].rec) /\ FetchRead(c)) =>
               \/ tasks'[c].pc = "count"
               \/ last'.detail = "Invalid download code"]_vars

\* C16 (as claimed, under SpecRace): every download that is served raises
\* its record's download_count by exactly one over the count the store holds
\* at that moment, whatever other downloads are in flight; so K served
\* downloads raise it by K.
C16_EachServedFetchAddsOne ==
    [][\A c \in Callers :
           FetchCount(c) =>
               files'[tasks[c].rec].download_count
                   = files[tasks[c].rec].download_count + 1]_vars

\* C19 (as claimed, under SpecRace): at every moment the records a cleanup
\* in flight has counted are exactly the records whose is_active it turned
\* from true to false, and no record is counted by two cleanups in flight.
C19_SweepCountsWhatItDeactivated ==
    /\ \A c \in Callers : tasks[c].cleaned = tasks[c].flipped
    /\ \A c, d \in Callers : c # d => tasks[c].cleaned \cap tasks[d].cleaned = {}

\* An UploadFile whose size attribute (5) is not the length of the bytes
\* read from it (2).
FileMismatch == [filename |-> "c.txt", content_type |-> "text/plain",
                 content |-> <<1, 2>>, size |-> 5]

\* C21 (as claimed): in every reachable state, an upload whose declared size
\* differs from the length of its bytes is rejected and leaves records and
\* blobs as they are, so that no record's file_size differs from the length
\* of the blob it points at.
C21_MismatchedSizeIsRejected ==
    \A uuid \in Uuids :
        \A up \in Uploads(FileMismatch, uuid, "none") :
            /\ up.resp.status # 200
            /\ up.files = files
            /\ up.blobs = blobs

InactiveOnly(code) ==
    /\ \E i \in DOMAIN files : files[i].download_code = Upper(code)
    /\ \A i \in DOMAIN files : files[i].download_code = Upper(code) => ~files[i].is_active

\* An answer that is no success, carries no bytes, and came with the
\* records left as they were.
RefusedUnchanged(res) ==
    /\ res.resp.status # 200
    /\ res.resp.content = <<>>
    /\ res.files = files

\* C23 (as claimed): in every reachable state, for a code whose records are
\* all inactive, download and preview in every front end find no record:
\* they answer without success and without bytes, and no record changes.
C23_InactiveRecordIsNotServed ==
    \A code \in LookupCodes :
        InactiveOnly(code) =>
            /\ backend = "mongo" =>
                   /\ \A rec \in Found(get_file_by_code(files, code), "none") :
                          /\ RefusedUnchanged(main_download_file(files, blobs, oids, code,
                                                                 rec, "none"))
                          /\ RefusedUnchanged(main_preview_file(files, blobs, oids, code,
                                                                rec))
                   /\ \A rec \in Found(get_file_by_code_sync(files, Upper(code)), "none") :
                          /\ RefusedUnchanged(streamlit_download_section(files, blobs, oids,
                                                                         code, rec, "none"))
                          /\ RefusedUnchanged(streamlit_preview_section(files, blobs, oids,
                                                                        code, rec))
            /\ backend = "supabase" =>
                   \A rec \in Found(router_query(files, code), "none") :
                       /\ RefusedUnchanged(router_download_file(files, blobs, oids, code,
                                                                rec, "none"))
                       /\ RefusedUnchanged(router_preview_file(files, blobs, oids, code,
                                                               rec, "none"))

\* The download answered with the blob of record rec and left every record
\* as it was.
ServedUncounted(res, rec) ==
    /\ res.resp.status = 200
    /\ res.resp.content = blobs[files[rec].blob].content
    /\ res.resp.mime = files[rec].mime_type
    /\ res.files = files

\* C24 (as claimed): in every reachable state, a download that finds its
\* record, reads the blob, and fails at the write of the count is still
\* answered with the file, and the records are as before.
C24_FailedIncrementStillServes ==
    \A code \in LookupCodes :
        /\ backend = "mongo" =>
               \A rec \in get_file_by_code(files, code) :
                   files[rec].blob \in DOMAIN blobs =>
                       /\ ServedUncounted(main_download_file(files, blobs, oids, code, rec,
                                                             "increment"), rec)
                       /\ ServedUncounted(streamlit_download_section(files, blobs, oids,
                                                                     code, rec, "increment"),
                                          rec)
        /\ backend = "supabase" =>
               \A rec \in router_query(files, code) :
                   files[rec].blob \in DOMAIN blobs =>
                       ServedUncounted(router_download_file(files, blobs, oids, code, rec,
                                                            "commit"), rec)

\* C25: a step that answers a download without success (the code was not
\* found, the blob read failed, or a store call raised before the file was
\* returned) leaves every record, download_count included, and every blob as
\* it was: no count is raised before the blob has been read.
C25_FailedFetchChangesNothing ==
    [][(last'.op = "download" /\ last'.status # 200) =>
           UNCHANGED <<files, blobs, oids, served, lost>>]_vars

\* C25 witness: the dashboard has just answered a download with a failed
\* blob read, for a record that had been downloaded once before.
C25_Witness ==
    /\ last.op = "download"
    /\ last.front = "streamlit"
    /\ last.detail = "Download failed: File download failed"
    /\ \E i \in DOMAIN files : files[i].download_count = 1 /\ served[i] = 1

\* A handler's result answers as other does and leaves records and blobs
\* as they are.
AnswersAs(res, other) ==
    /\ SameAnswer(res.resp, other.resp)
    /\ res.files = files
    /\ res.blobs = blobs

\* C26: in every reachable state, when the query inside get_file_by_code
\* raises, the lookup hands back None, and download and preview of main.py
\* and of the dashboard answer as they do for a code that was never issued,
\* with records and blobs unchanged; the lookup of supabase_client hands
\* back None as well.
C26_QueryFailureIsNotFound ==
    \A code \in LookupCodes :
        /\ backend = "mongo" =>
               /\ \A rec \in Found(get_file_by_code(files, code), "query") :
                      /\ rec = 0
                      /\ AnswersAs(main_download_file(files, blobs, oids, code, rec, "query"),
                                   main_download_file(files, blobs, oids, NeverCode, 0, "none"))
                      /\ AnswersAs(main_preview_file(files, blobs, oids, code, rec),
                                   main_preview_file(files, blobs, oids, NeverCode, 0))
               /\ \A rec \in Found(get_file_by_code_sync(files, Upper(code)), "query") :
                      /\ rec = 0
                      /\ AnswersAs(streamlit_download_section(files, blobs, oids, code, rec,
                                                              "query"),
                                   streamlit_download_section(files, blobs, oids, NeverCode,
                                                              0, "none"))
                      /\ AnswersAs(streamlit_preview_section(files, blobs, oids, code, rec),
                                   streamlit_preview_section(files, blobs, oids, NeverCode, 0))
        /\ backend = "supabase" =>
               Found(supabase_get_file_by_code(files, code), "query")
                   = Found(supabase_get_file_by_code(files, NeverCode), "none")

\* C26 witness: main.py has just answered a download as an invalid code
\* while the code of an active record with its blob could be asked for.
C26_Witness ==
    /\ last.op = "download"
    /\ last.front = "main"
    /\ last.detail = "Invalid download code"
    /\ \E code \in LookupCodes :
           \E i \in get_file_by_code(files, code) : files[i].blob \in DOMAIN blobs

\* C27: in every reachable state of the supabase deployment, a cleanup
\* whose commit raises returns 0 and changes no record, while the blobs
\* whose scheduled deletion ran are gone; and a cleanup whose commit goes
\* through deactivates every expired record and returns their number.
C27_SweepCommitIsAllOrNothing ==
    backend = "supabase" =>
        \A removed \in SUBSET supabase_expired(files, now) :
            LET failed == supabase_cleanup_expired_files(files, blobs, oids, now, removed,
                                                         "commit")
                done == supabase_cleanup_expired_files(files, blobs, oids, now, removed,
                                                       "none")
            IN  /\ failed.resp.count = 0
                /\ failed.files = files
                /\ failed.blobs = delete_blobs(blobs, {files[i].blob : i \in removed})
                /\ done.resp.count = Cardinality(supabase_expired(files, now))
                /\ \A i \in supabase_expired(files, now) : ~done.files[i].is_active
                /\ \A i \in DOMAIN files \ supabase_expired(files, now) :
                       done.files[i] = files[i]

\* C27 witness: a cleanup has just failed at its commit: an expired record
\* is still active and its blob has been deleted.
C27_Witness ==
    /\ backend = "supabase"
    /\ last.op = "cleanup"
    /\ last.detail = "Cleanup error"
    /\ \E i \in DOMAIN files :
           /\ files[i].is_active
           /\ PastExpiry(files[i], now)
           /\ files[i].blob \notin DOMAIN blobs

====
